---- MODULE Spec2Model ----
(***************************************************************************)
(* LifePilot: the mood-based task ranking of TaskList (current and earlier *)
(* variant), the single suggestion of SuggestedTask, the calculate-travel  *)
(* and sync-calendar functions, and the AddTaskDialog and Settings forms.  *)
(***************************************************************************)
EXTENDS Integers, Sequences, FiniteSets, TLC

\* Longest task sequence the tasks query returns in the model.
MaxTasks == 2

VARIABLES
    data,           \* the user's rows of the tasks table, created_at descending
    mood,           \* the mood prop of TaskList and SuggestedTask
    pc,             \* the operation that has run
    passed,         \* the array passed to sortTasksByMood, as the call left it
    returned,       \* the array sortTasksByMood returned
    second,         \* what a second call returned
    tasksState,     \* TaskList: const [tasks, setTasks] = useState([])
    listLoading,    \* TaskList: const [loading, setLoading] = useState(true)
    focusCount,     \* Dashboard: focusCount, set through onStatsUpdate
    suggestedTask,  \* SuggestedTask: useState<Task | null>(null)
    loading         \* SuggestedTask: const [loading, setLoading] = useState(false)

taskVars == <<data, mood, pc, passed, returned, second, tasksState, listLoading,
              focusCount, suggestedTask, loading>>

VARIABLES
    calendar,       \* the rows of public.calendar_events
    profile,        \* the caller's row of public.profiles
    travelRun,      \* the last invocation of calculate-travel: inputs, locals, response
    syncRun         \* the last invocation of sync-calendar: caller, rows sent, response

calendarVars == <<calendar, profile, travelRun, syncRun>>

VARIABLES
    addTask,        \* AddTaskDialog: priority, difficulty, estimatedTime
    tasksTable,     \* the payloads AddTaskDialog inserted into public.tasks
    settings        \* Settings: the profile state and the loading flag

formVars == <<addTask, tasksTable, settings>>

VARIABLES
    googleTokens,   \* the Google token columns of public.profiles, per user
    oauthRun        \* the last request to google-oauth-callback and its response

oauthVars == <<googleTokens, oauthRun>>

VARIABLES
    isSubscribed,        \* PushNotificationSetup state
    browserSubscription, \* what pushManager.getSubscription() resolves to
    pushSubscriptions,   \* the rows of public.push_subscriptions
    pushToast            \* the last toast of PushNotificationSetup

pushVars == <<isSubscribed, browserSubscription, pushSubscriptions, pushToast>>

VARIABLES
    channelMood,    \* TaskList: the mood in the closure of the subscribed fetchTasks
    listFetches,    \* TaskList: the fetchTasks calls in flight
    fetchedRows,    \* TaskList: the rows of the fetch that completed last
    suggestFetches  \* SuggestedTask: the fetchSuggestedTask calls in flight

dashVars == <<channelMood, listFetches, fetchedRows, suggestFetches>>

VARIABLES
    rlsTables,      \* the rows of the four tables with row level security
    rlsRun          \* the last statement a client sent and what it returned

rlsVars == <<rlsTables, rlsRun>>

restVars == <<oauthVars, pushVars, dashVars, rlsVars>>

vars == <<taskVars, calendarVars, formVars, restVars>>

\* ------------------------------------------------------------------ data

\* SQL NULL / JavaScript null for a column or field; Val(v) is the value v.
Null == <<>>

Val(v) == <<v>>

Users == {"u1", "u2"}

\* The signed-in user of the Settings page and of calculate-travel.
Caller == "u1"

\* Task.priority: "low" | "medium" | "high"
Priorities == {"low", "medium", "high"}

\* Task.difficulty: the slider of AddTaskDialog, min 1, max 5, step 1
Difficulties == 1..5

\* mood: number | null, as a record: NoMood is null, Num(n) the number n.
\* MoodVals holds the five moods the MoodSelector offers and integers on both
\* sides of them.
NoMood == [isNull |-> TRUE, n |-> 0]

Num(n) == [isNull |-> FALSE, n |-> n]

MoodVals == -1..6

MoodProps == {NoMood} \cup {Num(n) : n \in MoodVals}

\* if (mood): null and 0 are falsy, every other number is truthy.
Truthy(m) == ~m.isNull /\ m.n /= 0

\* Task | null: NoTask is null.
NoTask == [id |-> 0, difficulty |-> 0, priority |-> "none", completed |-> FALSE]

\* The fields of a Task row the ranking reads; id is the row's primary key.
TaskAttrs == [difficulty : Difficulties, priority : Priorities, completed : BOOLEAN]

\* A result of the tasks query: rows with distinct ids, in query order.
Rows(f) == [i \in DOMAIN f |-> [id |-> i,
                                 difficulty |-> f[i].difficulty,
                                 priority |-> f[i].priority,
                                 completed |-> f[i].completed]]

\* const priorityWeight = { high: 3, medium: 2, low: 1 }
priorityWeight == [high |-> 3, medium |-> 2, low |-> 1]

\* ------------------------------------------------------------ callbacks

\* A filter that lets completed tasks through.
KeepsCompleted(task) == TRUE

\* task => !task.completed
NotCompleted(task) == ~task.completed

\* A low-mood filter that lets every difficulty through.
AnyDifficulty(task) == TRUE

\* task => task.difficulty <= 3
LowMoodSuitable(task) == task.difficulty <= 3

\* t => t.difficulty <= 3
IsEasy(t) == t.difficulty <= 3

\* A medium test that also takes low priority.
IsNotHigh(t) == t.priority /= "high"

\* t => t.priority === "medium"
IsMedium(t) == t.priority = "medium"

\* t => t.difficulty >= 4
IsHard(t) == t.difficulty >= 4

\* t => t.priority === "high"
IsHigh(t) == t.priority = "high"

\* The arrow functions handed to filter, by name.
Passes(pred, t) ==
    CASE pred = "notCompleted" -> NotCompleted(t)
      [] pred = "lowMoodSuitable" -> LowMoodSuitable(t)
      [] pred = "isEasy" -> IsEasy(t)
      [] pred = "isMedium" -> IsMedium(t)
      [] pred = "isHard" -> IsHard(t)
      [] pred = "isHigh" -> IsHigh(t)

\* (a, b) => a.difficulty - b.difficulty
ByDifficulty(a, b) == a.difficulty - b.difficulty

\* neutral band: scoreB - scoreA with score = priorityWeight * 10 + difficulty
NeutralCompare(a, b) ==
    LET scoreA == priorityWeight[a.priority] * 10 + a.difficulty
        scoreB == priorityWeight[b.priority] * 10 + b.difficulty
    IN  scoreB - scoreA

\* The high band scored as the earlier variant scores it, priority unweighted.
HighCompareUnweighted(a, b) ==
    LET scoreA == priorityWeight[a.priority] + a.difficulty
        scoreB == priorityWeight[b.priority] + b.difficulty
    IN  scoreB - scoreA

\* high band: the same formula, written out a second time in the source
HighCompare(a, b) ==
    LET scoreA == priorityWeight[a.priority] * 10 + a.difficulty
        scoreB == priorityWeight[b.priority] * 10 + b.difficulty
    IN  scoreB - scoreA

\* An earlier comparator with the current variant's high-mood weighting.
EarlierCompareWeighted(a, b, m) ==
    IF m <= 2 THEN a.difficulty - b.difficulty
    ELSE IF m >= 4 THEN HighCompare(a, b)
    ELSE 0

\* The comparator of the earlier TaskList variant; it reads the mood prop.
EarlierCompare(a, b, m) ==
    IF m <= 2 THEN a.difficulty - b.difficulty
    ELSE IF m >= 4
    THEN LET scoreA == priorityWeight[a.priority] + a.difficulty
             scoreB == priorityWeight[b.priority] + b.difficulty
         IN  scoreB - scoreA
    ELSE 0

\* The arrow functions handed to sort, by name (with the mood they close over).
Compare(cmp, a, b) ==
    CASE cmp.fn = "byDifficulty" -> ByDifficulty(a, b)
      [] cmp.fn = "neutral" -> NeutralCompare(a, b)
      [] cmp.fn = "high" -> HighCompare(a, b)
      [] cmp.fn = "earlier" -> EarlierCompare(a, b, cmp.mood)

Comparator(fn, m) == [fn |-> fn, mood |-> m]

\* ------------------------------------------------------- Array.prototype

\* Array.prototype.filter: a new array of the elements that pass.
ArrayFilter(arr, pred) ==
    LET Test(t) == Passes(pred, t) IN SelectSeq(arr, Test)

\* The least element of a non-empty set of indices.
MinIndex(S) == CHOOSE i \in S : \A j \in S : i <= j

\* An insertion that puts x before the elements it compares equal to.
InsertBeforeEqual(x, sorted, cmp) ==
    LET after == {i \in 1..Len(sorted) : Compare(cmp, x, sorted[i]) <= 0}
        k == IF after = {} THEN Len(sorted) + 1 ELSE MinIndex(after)
    IN  SubSeq(sorted, 1, k - 1) \o <<x>> \o SubSeq(sorted, k, Len(sorted))

\* One insertion of Array.prototype.sort: x goes before the first element it
\* compares strictly less than, so elements that compare equal keep their order.
SortInsert(x, sorted, cmp) ==
    LET after == {i \in 1..Len(sorted) : Compare(cmp, x, sorted[i]) < 0}
        k == IF after = {} THEN Len(sorted) + 1 ELSE MinIndex(after)
    IN  SubSeq(sorted, 1, k - 1) \o <<x>> \o SubSeq(sorted, k, Len(sorted))

\* A sort that takes the elements from the end of the array: not stable.
ArraySortBackwards(arr, cmp) ==
    LET sorted[n \in 0..Len(arr)] ==
            IF n = 0 THEN <<>>
            ELSE SortInsert(arr[Len(arr) + 1 - n], sorted[n - 1], cmp)
    IN  sorted[Len(arr)]

\* Array.prototype.sort(compareFn): stable (ECMAScript 2019); the elements are
\* taken in array order and inserted by compareFn.
ArraySort(arr, cmp) ==
    LET sorted[n \in 0..Len(arr)] ==
            IF n = 0 THEN <<>> ELSE SortInsert(arr[n], sorted[n - 1], cmp)
    IN  sorted[Len(arr)]

\* ------------------------------------------------------ sortTasksByMood

\* The arrays a call of sortTasksByMood touches, by name: the argument and
\* the arrays the call allocates.
Refs == {"tasks", "incompleteTasks", "suitableTasks", "copy"}

\* The heap on entry: the argument array, nothing allocated yet.
HeapOnEntry(tasks) == [r \in Refs |-> IF r = "tasks" THEN tasks ELSE <<>>]

\* dst = src.filter(pred): allocates dst, leaves src as it is.
HeapFilter(h, src, dst, pred) == [h EXCEPT ![dst] = ArrayFilter(h[src], pred)]

\* ref.sort(cmp): sorts the array in place and returns it.
HeapSort(h, ref, cmp) == [h EXCEPT ![ref] = ArraySort(h[ref], cmp)]

\* dst = [...src]: allocates a copy.
HeapSpread(h, src, dst) == [h EXCEPT ![dst] = h[src]]

\* A sortTasksByMood that sorts the argument itself before it filters.
SortTasksByMoodInPlace(tasks, m) ==
    LET cmp == IF m <= 2 THEN Comparator("byDifficulty", m)
               ELSE IF m = 3 THEN Comparator("neutral", m)
               ELSE Comparator("high", m)
        h0 == HeapSort(HeapOnEntry(tasks), "tasks", cmp)
        h1 == HeapFilter(h0, "tasks", "incompleteTasks", "notCompleted")
    IN  IF m <= 2
        THEN [heap |-> HeapFilter(h1, "incompleteTasks", "suitableTasks",
                                  "lowMoodSuitable"),
              ret |-> "suitableTasks"]
        ELSE [heap |-> h1, ret |-> "incompleteTasks"]

\* One call of the current sortTasksByMood(tasks, mood): the heap when it
\* returns and the array it returns.
SortTasksByMoodCall(tasks, m) ==
    LET h0 == HeapOnEntry(tasks)
        h1 == HeapFilter(h0, "tasks", "incompleteTasks", "notCompleted")
    IN  IF m <= 2
        THEN LET h2 == HeapFilter(h1, "incompleteTasks", "suitableTasks",
                                  "lowMoodSuitable")
             IN  [heap |-> HeapSort(h2, "suitableTasks", Comparator("byDifficulty", m)),
                  ret |-> "suitableTasks"]
        ELSE IF m = 3
        THEN [heap |-> HeapSort(h1, "incompleteTasks", Comparator("neutral", m)),
              ret |-> "incompleteTasks"]
        ELSE [heap |-> HeapSort(h1, "incompleteTasks", Comparator("high", m)),
              ret |-> "incompleteTasks"]

\* The value sortTasksByMood(tasks, mood) returns.
SortTasksByMood(tasks, m) ==
    LET c == SortTasksByMoodCall(tasks, m) IN c.heap[c.ret]

\* One call of the earlier sortTasksByMood: [...tasks].sort(compare).
EarlierSortTasksByMoodCall(tasks, m) ==
    LET h0 == HeapOnEntry(tasks)
        h1 == HeapSpread(h0, "tasks", "copy")
    IN  [heap |-> HeapSort(h1, "copy", Comparator("earlier", m)), ret |-> "copy"]

\* The value the earlier sortTasksByMood(tasks, mood) returns.
EarlierSortTasksByMood(tasks, m) ==
    LET c == EarlierSortTasksByMoodCall(tasks, m) IN c.heap[c.ret]

\* --------------------------------------------------- fetchSuggestedTask

\* A reduce that takes the later of two equally easy tasks.
ReduceEasiestLast(arr) ==
    LET acc[n \in 1..Len(arr)] ==
            IF n = 1 THEN arr[1]
            ELSE IF arr[n].difficulty <= acc[n - 1].difficulty THEN arr[n]
            ELSE acc[n - 1]
    IN  acc[Len(arr)]

\* easyTasks.reduce((prev, current) =>
\*     current.difficulty < prev.difficulty ? current : prev)
\* on a non-empty array: no initial value, so the first element starts.
ReduceEasiest(arr) ==
    LET acc[n \in 1..Len(arr)] ==
            IF n = 1 THEN arr[1]
            ELSE IF arr[n].difficulty < acc[n - 1].difficulty THEN arr[n]
            ELSE acc[n - 1]
    IN  acc[Len(arr)]

\* The suggestion fetchSuggestedTask computes from a non-empty query result.
Suggest(tasks, m) ==
    IF m <= 2
    THEN LET easyTasks == ArrayFilter(tasks, "isEasy")
         IN  IF Len(easyTasks) > 0 THEN ReduceEasiest(easyTasks) ELSE NoTask
    ELSE IF m = 3
    THEN LET mediumTasks == ArrayFilter(tasks, "isMedium")
         IN  IF Len(mediumTasks) > 0 THEN mediumTasks[1] ELSE tasks[1]
    ELSE LET hardTasks == ArrayFilter(tasks, "isHard")
             highPriorityTasks ==
                 IF Len(hardTasks) > 0 THEN ArrayFilter(hardTasks, "isHigh")
                 ELSE ArrayFilter(tasks, "isHigh")
         IN  IF Len(highPriorityTasks) > 0 THEN highPriorityTasks[1] ELSE tasks[1]

\* .eq("user_id", user.id).eq("completed", false).order("created_at", desc)
IncompleteQuery(rows) == SelectSeq(rows, NotCompleted)

\* -------------------------------------------------- google-oauth-callback

\* The code of the request body: missing, rejected by Google, or accepted.
Codes == {"missing", "rejected", "accepted"}

\* The userId of the request body: missing, or the id of a profile.
UserIds == {Null} \cup {Val(u) : u \in Users}

\* The token columns of a profile never connected.
NoTokens == [google_access_token |-> Null, google_refresh_token |-> Null]

\* A token Google issued to the Google account of user u.
TokenOf(u) == Val(u)

NoRequest == [status |-> 0, error |-> "", requester |-> "", userId |-> Null]

OauthFailed(message) == [NoRequest EXCEPT !.status = 400, !.error = message]

\* .update({ google_access_token, google_refresh_token, ... }).eq('id', userId)
\* with the tokens issued for the requester's code; a refresh_token Google
\* left out is undefined and stays out of the update.
StoreTokens(table, userId, requester, withRefresh) ==
    [u \in Users |->
        IF Val(u) = userId
        THEN [google_access_token |-> TokenOf(requester),
              google_refresh_token |-> IF withRefresh THEN TokenOf(requester)
                                       ELSE table[u].google_refresh_token]
        ELSE table[u]]

\* Deno.serve(async (req) => { ... }) of google-oauth-callback: requester is
\* who sends the request, code and userId come from its body.
GoogleOauthCallback ==
    /\ \E requester \in Users, code \in Codes, userId \in UserIds,
          withRefresh \in BOOLEAN, error \in BOOLEAN :
         IF code = "missing" \/ userId = Null
         THEN /\ oauthRun' = OauthFailed("Missing code or userId")
              /\ UNCHANGED googleTokens
         ELSE IF code = "rejected"
         THEN /\ oauthRun' = OauthFailed("Failed to get access token")
              /\ UNCHANGED googleTokens
         ELSE IF error
         THEN /\ oauthRun' = OauthFailed("update error")
              /\ UNCHANGED googleTokens
         ELSE /\ googleTokens' = StoreTokens(googleTokens, userId, requester, withRefresh)
              /\ oauthRun' = [status |-> 200, error |-> "", requester |-> requester,
                              userId |-> userId]
    /\ UNCHANGED <<taskVars, calendarVars, formVars, pushVars, dashVars, rlsVars>>

OauthIdle ==
    /\ googleTokens = [u \in Users |-> NoTokens]
    /\ oauthRun = NoRequest

\* -------------------------------------------------- PushNotificationSetup

\* Bound: push endpoints the browser is issued.
MaxEndpoints == 2

\* The session of the supabase client: signed out, or a user.
Sessions == {Null} \cup {Val(u) : u \in Users}

\* The endpoint of a subscription pushManager.subscribe creates: one no
\* stored row and no live subscription carries.
NewEndpoint ==
    LET used == {r.endpoint : r \in pushSubscriptions}
                    \cup {browserSubscription[i] : i \in DOMAIN browserSubscription}
    IN  IF used = {} THEN 1 ELSE 1 + CHOOSE e \in used : \A d \in used : d <= e

\* pushManager.subscribe: the live subscription when there is one, else a new one.
Subscribed == IF browserSubscription = Null THEN Val(NewEndpoint) ELSE browserSubscription

\* INSERT under "Users can insert own push subscriptions" and endpoint UNIQUE
InsertRejected(session, endpoint) ==
    \/ session = Null
    \/ \E r \in pushSubscriptions : r.endpoint = endpoint

\* DELETE ... WHERE endpoint = e under "Users can delete own push subscriptions"
DeleteByEndpoint(session, endpoint) ==
    { r \in pushSubscriptions : ~(r.endpoint = endpoint /\ Val(r.user_id) = session) }

\* The component mounts: isSubscribed starts false and checkSubscription runs.
CheckSubscription ==
    /\ \E throws \in BOOLEAN :
          isSubscribed' = IF throws THEN FALSE ELSE browserSubscription /= Null
    /\ UNCHANGED <<browserSubscription, pushSubscriptions, pushToast>>
    /\ UNCHANGED <<taskVars, calendarVars, formVars, oauthVars, dashVars, rlsVars>>

\* subscribeToPush, the onClick of the button while isSubscribed is false.
SubscribeToPush ==
    /\ ~isSubscribed
    /\ \E permission \in {"granted", "denied"}, subscribeThrows \in BOOLEAN,
          session \in Sessions, error \in BOOLEAN :
         IF permission /= "granted"
         THEN /\ pushToast' = "Notification permission denied"
              /\ UNCHANGED <<isSubscribed, browserSubscription, pushSubscriptions>>
         ELSE IF subscribeThrows
         THEN /\ pushToast' = "Failed to enable notifications"
              /\ UNCHANGED <<isSubscribed, browserSubscription, pushSubscriptions>>
         ELSE /\ Subscribed[1] <= MaxEndpoints
              /\ browserSubscription' = Subscribed
              /\ IF session = Null
                 THEN /\ pushToast' = "Not authenticated"
                      /\ UNCHANGED <<isSubscribed, pushSubscriptions>>
                 ELSE IF error \/ InsertRejected(session, Subscribed[1])
                 THEN /\ pushToast' = "Failed to enable notifications"
                      /\ UNCHANGED <<isSubscribed, pushSubscriptions>>
                 ELSE /\ pushSubscriptions' = pushSubscriptions \cup
                             {[user_id |-> session[1], endpoint |-> Subscribed[1]]}
                      /\ isSubscribed' = TRUE
                      /\ pushToast' = "Push notifications enabled"
    /\ UNCHANGED <<taskVars, calendarVars, formVars, oauthVars, dashVars, rlsVars>>

\* unsubscribeFromPush, the onClick of the button while isSubscribed is true.
UnsubscribeFromPush ==
    /\ isSubscribed
    /\ \E session \in Sessions, error \in BOOLEAN :
         IF browserSubscription = Null
         THEN UNCHANGED <<isSubscribed, browserSubscription, pushSubscriptions, pushToast>>
         ELSE /\ browserSubscription' = Null
              /\ IF error
                 THEN /\ pushToast' = "Failed to disable notifications"
                      /\ UNCHANGED <<isSubscribed, pushSubscriptions>>
                 ELSE /\ pushSubscriptions' = DeleteByEndpoint(session, browserSubscription[1])
                      /\ isSubscribed' = FALSE
                      /\ pushToast' = "Push notifications disabled"
    /\ UNCHANGED <<taskVars, calendarVars, formVars, oauthVars, dashVars, rlsVars>>

PushIdle ==
    /\ isSubscribed = FALSE
    /\ browserSubscription = Null
    /\ pushSubscriptions = {}
    /\ pushToast = ""

\* --------------------------------------------------- row level security

\* Bound: rows in the four tables together.
MaxRows == 1

\* ALTER TABLE ... ENABLE ROW LEVEL SECURITY
Tables == {"calendar_events", "push_subscriptions", "financial_records", "wishlist_items"}

Commands == {"SELECT", "INSERT", "UPDATE", "DELETE"}

\* CREATE POLICY ... ON table FOR command: every command of every table
\* but UPDATE of push_subscriptions. Each policy has the one expression
\* auth.uid() = user_id, as USING (SELECT, UPDATE, DELETE) or WITH CHECK
\* (INSERT); an UPDATE policy without WITH CHECK applies USING to the new row.
Policies ==
    {[table |-> t, command |-> c] : t \in Tables, c \in Commands}
        \ {[table |-> "push_subscriptions", command |-> "UPDATE"]}

\* An expression that holds for every signed-in caller.
AnyRow(uid, row) == uid /= Null

\* auth.uid() = user_id; auth.uid() of a client without session is NULL.
OwnRow(uid, row) == uid = Val(row.user_id)

\* Row level security: a command on a row passes when a policy of the table
\* for the command holds for it; without a policy nothing passes.
Permitted(table, command, uid, row) ==
    \E p \in Policies : p.table = table /\ p.command = command /\ OwnRow(uid, row)

\* The values of the one data column the model gives a row.
RowValues == {0, 1}

\* id UUID DEFAULT gen_random_uuid(): an id no row of the table has.
NewRowId(table) ==
    CHOOSE k \in 1..(Cardinality(rlsTables[table]) + 1) :
        \A r \in rlsTables[table] : r.id /= k

RowCount(tables) ==
    Cardinality(tables["calendar_events"]) + Cardinality(tables["push_subscriptions"])
        + Cardinality(tables["financial_records"]) + Cardinality(tables["wishlist_items"])

Statement(command, table, uid, id, rows, error) ==
    [command |-> command, table |-> table, uid |-> uid, id |-> id, rows |-> rows,
     error |-> error]

NoStatement == Statement("", "", Null, 0, {}, FALSE)

OtherTablesIdle == UNCHANGED <<taskVars, calendarVars, formVars, oauthVars, pushVars, dashVars>>

\* supabase.from(table).select("*").eq("id", id)
ClientSelect ==
    /\ \E uid \in Sessions, table \in Tables, id \in 1..MaxRows :
          rlsRun' = Statement("SELECT", table, uid, id,
                              {r \in rlsTables[table] :
                                   r.id = id /\ Permitted(table, "SELECT", uid, r)},
                              FALSE)
    /\ UNCHANGED rlsTables
    /\ OtherTablesIdle

\* supabase.from(table).insert({ user_id, value })
ClientInsert ==
    /\ RowCount(rlsTables) < MaxRows
    /\ \E uid \in Sessions, table \in Tables, user_id \in Users, value \in RowValues :
          LET row == [id |-> NewRowId(table), user_id |-> user_id, value |-> value]
          IN  IF Permitted(table, "INSERT", uid, row)
              THEN /\ rlsTables' = [rlsTables EXCEPT ![table] = @ \cup {row}]
                   /\ rlsRun' = Statement("INSERT", table, uid, row.id, {row}, FALSE)
              ELSE /\ rlsRun' = Statement("INSERT", table, uid, row.id, {}, TRUE)
                   /\ UNCHANGED rlsTables
    /\ OtherTablesIdle

\* supabase.from(table).update({ user_id, value }).eq("id", id)
ClientUpdate ==
    /\ \E uid \in Sessions, table \in Tables, id \in 1..MaxRows,
          user_id \in Users, value \in RowValues :
          LET old == {r \in rlsTables[table] :
                          r.id = id /\ Permitted(table, "UPDATE", uid, r)}
              new == {[r EXCEPT !.user_id = user_id, !.value = value] : r \in old}
          IN  IF \A r \in new : Permitted(table, "UPDATE", uid, r)
              THEN /\ rlsTables' = [rlsTables EXCEPT ![table] = (@ \ old) \cup new]
                   /\ rlsRun' = Statement("UPDATE", table, uid, id, new, FALSE)
              ELSE /\ rlsRun' = Statement("UPDATE", table, uid, id, {}, TRUE)
                   /\ UNCHANGED rlsTables
    /\ OtherTablesIdle

\* supabase.from(table).delete().eq("id", id)
ClientDelete ==
    /\ \E uid \in Sessions, table \in Tables, id \in 1..MaxRows :
          LET old == {r \in rlsTables[table] :
                          r.id = id /\ Permitted(table, "DELETE", uid, r)}
          IN  /\ rlsTables' = [rlsTables EXCEPT ![table] = @ \ old]
              /\ rlsRun' = Statement("DELETE", table, uid, id, old, FALSE)
    /\ OtherTablesIdle

RlsIdle ==
    /\ rlsTables = [t \in Tables |-> {}]
    /\ rlsRun = NoStatement

\* The Dashboard before it mounts.
DashIdle ==
    /\ channelMood = NoMood
    /\ listFetches = {}
    /\ fetchedRows = <<>>
    /\ suggestFetches = {}

RestIdle ==
    /\ OauthIdle
    /\ PushIdle
    /\ DashIdle
    /\ RlsIdle

\* --------------------------------------------------------------- parseInt

Digits == {"0", "1", "2", "3", "4", "5", "6", "7", "8", "9"}

DigitValue(c) ==
    CASE c = "0" -> 0 [] c = "1" -> 1 [] c = "2" -> 2 [] c = "3" -> 3 [] c = "4" -> 4
      [] c = "5" -> 5 [] c = "6" -> 6 [] c = "7" -> 7 [] c = "8" -> 8 [] c = "9" -> 9

NaN == [nan |-> TRUE, n |-> 0]

\* parseInt(text), radix 10, of a text given as its characters: an optional
\* sign, then the longest run of digits; NaN when there is no digit.
ParseInt(text) ==
    LET signed == text /= <<>> /\ text[1] \in {"-", "+"}
        body == IF signed THEN Tail(text) ELSE text
        run == CHOOSE k \in 0..Len(body) :
                   /\ \A i \in 1..k : body[i] \in Digits
                   /\ k < Len(body) => body[k + 1] \notin Digits
        value[k \in 0..run] ==
            IF k = 0 THEN 0 ELSE value[k - 1] * 10 + DigitValue(body[k])
    IN  IF run = 0 THEN NaN
        ELSE [nan |-> FALSE,
              n |-> IF signed /\ text[1] = "-" THEN 0 - value[run] ELSE value[run]]

\* parseInt(x) || 0: NaN and 0 are falsy.
ParseIntOrZero(text) == IF ParseInt(text).nan THEN 0 ELSE ParseInt(text).n

\* ---------------------------------------------------------- AddTaskDialog

\* Bound: rows AddTaskDialog inserts.
MaxInserts == 2

\* <SelectItem value=...>
SelectItems == {"low", "medium", "high"}

\* <Slider min={1} max={5} step={1}>: the values onValueChange reports.
SliderValues == {v \in 1..5 : (v - 1) % 1 = 0}

\* What the estimated-time input holds: nothing, or "30".
TimeTexts == {<<>>, <<"3", "0">>}

\* useState defaults, restored after a successful insert.
BlankForm == [priority |-> "medium", difficulty |-> <<3>>, estimatedTime |-> <<>>]

\* A payload that takes the slider value as a zero-based index.
InsertPayloadZeroBased(form, user) ==
    [user_id |-> user, priority |-> form.priority,
     difficulty |-> form.difficulty[1] - 1,
     estimated_time |-> IF form.estimatedTime /= <<>>
                        THEN Val(ParseInt(form.estimatedTime)) ELSE Null]

\* The object handed to supabase.from("tasks").insert (title and description
\* are free text and left out).
InsertPayload(form, user) ==
    [user_id |-> user, priority |-> form.priority,
     difficulty |-> form.difficulty[1],
     estimated_time |-> IF form.estimatedTime /= <<>>
                        THEN Val(ParseInt(form.estimatedTime)) ELSE Null]

SetPriority ==
    /\ \E value \in SelectItems : addTask' = [addTask EXCEPT !.priority = value]
    /\ UNCHANGED <<tasksTable, settings, taskVars, calendarVars, restVars>>

SetDifficulty ==
    /\ \E v \in SliderValues : addTask' = [addTask EXCEPT !.difficulty = <<v>>]
    /\ UNCHANGED <<tasksTable, settings, taskVars, calendarVars, restVars>>

SetEstimatedTime ==
    /\ \E text \in TimeTexts : addTask' = [addTask EXCEPT !.estimatedTime = text]
    /\ UNCHANGED <<tasksTable, settings, taskVars, calendarVars, restVars>>

\* handleSubmit; user is what getUser answers, error what the insert answers.
HandleSubmit ==
    /\ Len(tasksTable) < MaxInserts
    /\ \E user \in {Null, Val(Caller)}, error \in BOOLEAN :
          IF user = Null \/ error
          THEN UNCHANGED <<addTask, tasksTable>>
          ELSE /\ tasksTable' = Append(tasksTable, InsertPayload(addTask, user[1]))
               /\ addTask' = BlankForm
    /\ UNCHANGED <<settings, taskVars, calendarVars, restVars>>

\* --------------------------------------------------------------- Settings

DurationFields ==
    {"cooking_time", "getting_ready_time", "travel_buffer_time", "wake_up_margin"}

\* useState default of Settings' profile
DefaultProfileState ==
    [cooking_time |-> 30, getting_ready_time |-> 45, travel_buffer_time |-> 15,
     wake_up_margin |-> 30, home_location |-> ""]

\* What a type="number" input can hold as its value: nothing, "-5", "12.5".
DurationTexts == {<<>>, <<"-", "5">>, <<"1", "2", ".", "5">>}

\* data.x || fallback for a number column
OrDefault(column, fallback) == IF column = 0 THEN fallback ELSE column

\* setProfile({...}) of fetchProfile
FetchedProfileState(row) ==
    [cooking_time |-> OrDefault(row.cooking_time, 30),
     getting_ready_time |-> OrDefault(row.getting_ready_time, 45),
     travel_buffer_time |-> OrDefault(row.travel_buffer_time, 15),
     wake_up_margin |-> OrDefault(row.wake_up_margin, 30),
     home_location |-> IF row.home_location = Null THEN "" ELSE row.home_location[1]]

\* The row after .update({...}).eq("id", user.id)
SavedRow(row, state) ==
    [row EXCEPT !.cooking_time = state.cooking_time,
                !.getting_ready_time = state.getting_ready_time,
                !.travel_buffer_time = state.travel_buffer_time,
                !.wake_up_margin = state.wake_up_margin,
                !.home_location = Val(state.home_location)]

\* fetchProfile, run once on mount
FetchProfile ==
    /\ settings.loading
    /\ \E user \in {Null, Val(Caller)}, error \in BOOLEAN :
          IF user = Null
          THEN UNCHANGED settings
          ELSE IF error
          THEN settings' = [settings EXCEPT !.loading = FALSE]
          ELSE settings' = [profile |-> FetchedProfileState(profile), loading |-> FALSE]
    /\ UNCHANGED <<profile, calendar, travelRun, syncRun, addTask, tasksTable, taskVars, restVars>>

\* onChange of one of the four duration inputs
EditDuration ==
    /\ ~settings.loading
    /\ \E field \in DurationFields, text \in DurationTexts :
          settings' = [settings EXCEPT !.profile[field] = ParseIntOrZero(text)]
    /\ UNCHANGED <<profile, calendar, travelRun, syncRun, addTask, tasksTable, taskVars, restVars>>

\* handleSave, bound to the Save button's onClick
HandleSave ==
    /\ ~settings.loading
    /\ \E user \in {Null, Val(Caller)}, error \in BOOLEAN :
          IF user = Null \/ error
          THEN UNCHANGED profile
          ELSE profile' = SavedRow(profile, settings.profile)
    /\ UNCHANGED <<settings, calendar, travelRun, syncRun, addTask, tasksTable, taskVars, restVars>>

FormsIdle ==
    /\ addTask = BlankForm
    /\ tasksTable = <<>>
    /\ settings = [profile |-> DefaultProfileState, loading |-> TRUE]

\* ------------------------------------------------------ calendar_events

\* Bound: rows of calendar_events in the initial table of a travel run.
MaxEvents == 2

DayMs == 86400000

\* Date.prototype.toISOString: calendar day and time of day (UTC) of an
\* instant given in milliseconds; instants before the reference day have a
\* negative day.
ToISOString(ms) == [day |-> ms \div DayMs, msOfDay |-> ms % DayMs]

\* new Date(isoString).getTime()
DateParse(iso) == iso.day * DayMs + iso.msOfDay

\* Event start instants (ms after the reference midnight): 00:10 and 00:40.
Starts == {600000, 2400000}

\* Date.now() at an invocation: 00:30, so that an event starting at 00:10 is
\* already past.
Nows == {1800000}

Locations == {Null, Val("office")}

EventAttrs == [user_id : Users, start : Starts, location : Locations]

\* A freshly synced row: the two travel columns are NULL (no DEFAULT).
EventRow(i, a) ==
    [id |-> i, user_id |-> a.user_id, google_event_id |-> i,
     start_time |-> ToISOString(a.start), location |-> a.location,
     travel_time_seconds |-> Null, recommended_leave_time |-> Null]

EventRows(f) == {EventRow(i, f[i]) : i \in DOMAIN f}

\* profiles row of the caller, as Settings.handleSave writes it.
ExampleProfile ==
    [home_location |-> Val("home"), travel_buffer_time |-> 15,
     getting_ready_time |-> 45, cooking_time |-> 30, wake_up_margin |-> 30]

Profiles ==
    { ExampleProfile,
      [ExampleProfile EXCEPT !.home_location = Null],
      [ExampleProfile EXCEPT !.travel_buffer_time = 0, !.getting_ready_time = 0,
                             !.cooking_time = 0, !.wake_up_margin = 0],
      [ExampleProfile EXCEPT !.travel_buffer_time = -30, !.cooking_time = -5] }

\* --------------------------------------------------------- sync-calendar

\* Bound: items in one answer of the Google Calendar events request.
MaxItems == 2

GoogleIds == {1, 2}

\* An item of calendarData.items: its id, start and location.
Items == [id : GoogleIds, start : Starts, location : {Val("office")}]

\* calendarData.items.map(event => ({ user_id: user.id, ... }))
EventsToStore(items, user) ==
    [i \in DOMAIN items |->
        [user_id |-> user, google_event_id |-> items[i].id,
         start_time |-> ToISOString(items[i].start), location |-> items[i].location]]

\* onConflict: 'user_id,google_event_id', the columns of the UNIQUE constraint
Conflicts(r, e) == r.user_id = e.user_id /\ r.google_event_id = e.google_event_id

\* gen_random_uuid(): an id no row has.
NewId(rows) == Cardinality(rows) + 1

Inserted(rows, e) ==
    [id |-> NewId(rows), user_id |-> e.user_id, google_event_id |-> e.google_event_id,
     start_time |-> e.start_time, location |-> e.location,
     travel_time_seconds |-> Null, recommended_leave_time |-> Null]

\* INSERT without ON CONFLICT
InsertRow(rows, e) == rows \cup {Inserted(rows, e)}

\* INSERT ... ON CONFLICT (user_id, google_event_id) DO UPDATE SET the columns
\* sent, for one row of the batch.
UpsertRow(rows, e) ==
    IF \E r \in rows : Conflicts(r, e)
    THEN { IF Conflicts(r, e)
           THEN [r EXCEPT !.start_time = e.start_time, !.location = e.location]
           ELSE r : r \in rows }
    ELSE rows \cup {Inserted(rows, e)}

\* The upsert statement: it fails as a whole, writing nothing, when two rows
\* of the batch conflict with each other.
Upsert(rows, batch) ==
    LET twice == \E i, j \in DOMAIN batch : i /= j /\ Conflicts(batch[i], batch[j])
        stored[n \in 0..Len(batch)] ==
            IF n = 0 THEN rows ELSE UpsertRow(stored[n - 1], batch[n])
    IN  [error |-> twice, rows |-> IF twice THEN rows ELSE stored[Len(batch)]]

NoSync == [status |-> 0, error |-> "", user |-> "", events |-> <<>>]

SyncFailed(message) == [NoSync EXCEPT !.status = 400, !.error = message]

\* ------------------------------------------------------ calculate-travel

\* What the Directions request of one event does: fetch or .json() throws,
\* or a body {status, routes}; a route is given by legs[0].duration.value.
Throws == [kind |-> "throws", status |-> "", routes |-> <<>>]

Body(status, routes) == [kind |-> "json", status |-> status, routes |-> routes]

\* (The Directions API answers OK only with at least one route.)
Answers ==
    { Throws, Body("ZERO_RESULTS", <<>>), Body("OK", <<600>>), Body("OK", <<1800>>) }

\* An events query without the user_id filter.
QueryEventsOfAllUsers(rows, user, now) ==
    { e \in rows : e.location /= Null /\ DateParse(e.start_time) >= now }

\* .eq('user_id', user.id).not('location', 'is', null).gte('start_time', now)
QueryEvents(rows, user, now) ==
    { e \in rows : /\ e.user_id = user
                   /\ e.location /= Null
                   /\ DateParse(e.start_time) >= now }

\* The rows of a select without ORDER BY arrive in an order the database
\* picks: here by ascending or by descending id.
ById(S, before) ==
    [i \in 1..Cardinality(S) |->
        CHOOSE e \in S : Cardinality({d \in S : <<d.id, e.id>> \in before}) = i - 1]

Orderings(S) ==
    { ById(S, {p \in (1..MaxEvents) \X (1..MaxEvents) : p[1] < p[2]}),
      ById(S, {p \in (1..MaxEvents) \X (1..MaxEvents) : p[1] > p[2]}) }

\* data.status === 'OK' && data.routes.length > 0, inside the per-event try
HasEstimate(answer) ==
    answer.kind = "json" /\ answer.status = "OK" /\ Len(answer.routes) > 0

\* A chain that adds the buffer and the getting-ready time.
BackCalculateAdding(eventStart, travelSeconds, prof) ==
    LET leaveTime == eventStart - travelSeconds * 1000 + prof.travel_buffer_time * 60 * 1000
        getReadyTime == leaveTime + prof.getting_ready_time * 60 * 1000
        cookStartTime == getReadyTime - prof.cooking_time * 60 * 1000
        wakeUpTime == cookStartTime - prof.wake_up_margin * 60 * 1000
    IN  [travelSeconds |-> travelSeconds, eventStart |-> eventStart,
         leaveTime |-> leaveTime, getReadyTime |-> getReadyTime,
         cookStartTime |-> cookStartTime, wakeUpTime |-> wakeUpTime]

\* The locals of one loop iteration (all instants in ms).
BackCalculate(eventStart, travelSeconds, prof) ==
    LET travelWithBuffer == travelSeconds + prof.travel_buffer_time * 60
        leaveTime == eventStart - travelWithBuffer * 1000
        getReadyTime == leaveTime - prof.getting_ready_time * 60 * 1000
        cookStartTime == getReadyTime - prof.cooking_time * 60 * 1000
        wakeUpTime == cookStartTime - prof.wake_up_margin * 60 * 1000
    IN  [travelSeconds |-> travelSeconds, eventStart |-> eventStart,
         leaveTime |-> leaveTime, getReadyTime |-> getReadyTime,
         cookStartTime |-> cookStartTime, wakeUpTime |-> wakeUpTime]

Locals(event, answer, prof) ==
    BackCalculate(DateParse(event.start_time), answer.routes[1], prof)

\* An update whose travel_time_seconds includes the buffer.
UpdateWithBuffer(event, answer, prof) ==
    LET c == Locals(event, answer, prof)
    IN  [id |-> event.id,
         travel_time_seconds |-> c.travelSeconds + prof.travel_buffer_time * 60,
         recommended_leave_time |-> ToISOString(c.leaveTime)]

\* updates.push({ id, travel_time_seconds, recommended_leave_time })
UpdateOf(event, answer, prof) ==
    LET c == Locals(event, answer, prof)
    IN  [id |-> event.id,
         travel_time_seconds |-> c.travelSeconds,
         recommended_leave_time |-> ToISOString(c.leaveTime)]

\* A loop without the per-event try/catch and status test: the first event
\* without an estimate ends it with an exception.
LoopAbortsOnFailure(events, answers, prof) ==
    LET n == IF \E i \in DOMAIN events : ~HasEstimate(answers[events[i].id])
             THEN (CHOOSE i \in DOMAIN events :
                       /\ ~HasEstimate(answers[events[i].id])
                       /\ \A j \in 1..(i - 1) : HasEstimate(answers[events[j].id])) - 1
             ELSE Len(events)
        done == SubSeq(events, 1, n)
    IN  [updates |-> [i \in DOMAIN done |-> UpdateOf(done[i], answers[done[i].id], prof)],
         locals |-> [i \in DOMAIN done |-> [id |-> done[i].id,
                                           chain |-> Locals(done[i], answers[done[i].id], prof)]],
         threw |-> n < Len(events)]

\* The loop over events: one iteration appends an update when the lookup
\* gave an estimate; a throw is caught inside the iteration, so no exception
\* leaves the loop (threw).  The result carries the updates and the locals of
\* the iterations that computed a chain.
Loop(events, answers, prof) ==
    LET ok == SelectSeq(events, LAMBDA e : HasEstimate(answers[e.id]))
    IN  [updates |-> [i \in DOMAIN ok |-> UpdateOf(ok[i], answers[ok[i].id], prof)],
         locals |-> [i \in DOMAIN ok |-> [id |-> ok[i].id,
                                         chain |-> Locals(ok[i], answers[ok[i].id], prof)]],
         threw |-> FALSE]

\* An update that also clears the two columns of every other row.
UpdateRowClearsOthers(rows, update) ==
    { IF r.id = update.id
      THEN [r EXCEPT !.travel_time_seconds = Val(update.travel_time_seconds),
                     !.recommended_leave_time = Val(update.recommended_leave_time)]
      ELSE [r EXCEPT !.travel_time_seconds = Null,
                     !.recommended_leave_time = Null] : r \in rows }

\* An update that adds the duration to the one stored.
UpdateRowAccumulates(rows, update) ==
    { IF r.id = update.id
      THEN [r EXCEPT !.travel_time_seconds =
                         IF r.travel_time_seconds = Null
                         THEN Val(update.travel_time_seconds)
                         ELSE Val(r.travel_time_seconds[1] + update.travel_time_seconds),
                     !.recommended_leave_time = Val(update.recommended_leave_time)]
      ELSE r : r \in rows }

\* .update({ travel_time_seconds, recommended_leave_time }).eq('id', update.id)
UpdateRow(rows, update) ==
    { IF r.id = update.id
      THEN [r EXCEPT !.travel_time_seconds = Val(update.travel_time_seconds),
                     !.recommended_leave_time = Val(update.recommended_leave_time)]
      ELSE r : r \in rows }

\* for (const update of updates) await supabase...update(...)
ApplyUpdates(rows, updates) ==
    LET applied[n \in 0..Len(updates)] ==
            IF n = 0 THEN rows ELSE UpdateRow(applied[n - 1], updates[n])
    IN  applied[Len(updates)]

\* The invocation record: what the handler read, computed and answered.
NoRun ==
    [status |-> 0, error |-> "", updated |-> 0, now |-> 0, events |-> <<>>,
     answers |-> <<>>, updates |-> <<>>, locals |-> <<>>]

\* catch (error) => Response({ error: error.message }, { status: 400 })
Failed(message) == [NoRun EXCEPT !.status = 400, !.error = message]

\* !profile?.home_location is false: neither NULL nor the empty string.
HomeLocationSet(prof) == prof.home_location \notin {Null, Val("")}

AuthOutcomes == {"noHeader", "notAuthenticated", "ok"}

AuthError(auth) ==
    IF auth = "noHeader" THEN "No authorization header" ELSE "Not authenticated"

\* The list view and the suggestion card take no step in the calendar
\* specifications.
TaskIdle ==
    /\ data = <<>>
    /\ mood = NoMood
    /\ pc = "idle"
    /\ passed = <<>>
    /\ returned = <<>>
    /\ second = <<>>
    /\ tasksState = <<>>
    /\ listLoading = TRUE
    /\ focusCount = 0
    /\ suggestedTask = NoTask
    /\ loading = FALSE

CalendarIdle ==
    /\ calendar = {}
    /\ profile = ExampleProfile
    /\ travelRun = NoRun
    /\ syncRun = NoSync

TravelInit ==
    /\ \E n \in 0..MaxEvents : \E f \in [1..n -> EventAttrs] : calendar = EventRows(f)
    /\ profile \in Profiles
    /\ travelRun = NoRun
    /\ syncRun = NoSync
    /\ TaskIdle
    /\ FormsIdle
    /\ RestIdle

\* Deno.serve(async (req) => { ... }) of calculate-travel, one invocation.
CalculateTravel ==
    /\ \E auth \in AuthOutcomes :
         IF auth /= "ok"
         THEN /\ travelRun' = Failed(AuthError(auth))
              /\ UNCHANGED calendar
         ELSE IF ~HomeLocationSet(profile)
         THEN /\ travelRun' = Failed("Home location not set in profile")
              /\ UNCHANGED calendar
         ELSE \E eventsError \in BOOLEAN :
              IF eventsError
              THEN /\ travelRun' = Failed("eventsError")
                   /\ UNCHANGED calendar
              ELSE \E now \in Nows :
                   \E events \in Orderings(QueryEvents(calendar, Caller, now)) :
                   \E answers \in [{events[i].id : i \in DOMAIN events} -> Answers] :
                   \E loop \in {Loop(events, answers, profile)} :
                           IF loop.threw
                           THEN /\ travelRun' = Failed("lookup failed")
                                /\ UNCHANGED calendar
                           ELSE /\ calendar' = ApplyUpdates(calendar, loop.updates)
                                /\ travelRun' =
                                       [status |-> 200, error |-> "",
                                        updated |-> Len(loop.updates), now |-> now,
                                        events |-> [i \in DOMAIN events |-> events[i].id],
                                        answers |-> answers,
                                        updates |-> loop.updates,
                                        locals |-> loop.locals]
    /\ UNCHANGED <<profile, syncRun, taskVars, formVars, restVars>>

TravelNext == CalculateTravel

SpecTravel == TravelInit /\ [][TravelNext]_vars

SyncInit ==
    /\ CalendarIdle
    /\ TaskIdle
    /\ FormsIdle
    /\ RestIdle

\* Deno.serve(async (req) => { ... }) of sync-calendar, one invocation; user
\* is the caller, fetched what the token refresh and the Google request do.
SyncCalendar ==
    /\ \E auth \in AuthOutcomes, user \in Users, connected \in BOOLEAN,
          fetched \in {"throws", "noItems", "items"} :
         IF auth /= "ok"
         THEN /\ syncRun' = SyncFailed(AuthError(auth))
              /\ UNCHANGED calendar
         ELSE IF ~connected
         THEN /\ syncRun' = SyncFailed("Google Calendar not connected")
              /\ UNCHANGED calendar
         ELSE IF fetched = "throws"
         THEN /\ syncRun' = SyncFailed("fetch failed")
              /\ UNCHANGED calendar
         ELSE IF fetched = "noItems"
         THEN /\ syncRun' = [NoSync EXCEPT !.status = 200, !.user = user]
              /\ UNCHANGED calendar
         ELSE \E n \in 0..MaxItems : \E items \in [1..n -> Items] :
              \E upsert \in {Upsert(calendar, EventsToStore(items, user))} :
                  IF upsert.error
                  THEN /\ syncRun' = SyncFailed("upsertError")
                       /\ UNCHANGED calendar
                  ELSE /\ calendar' = upsert.rows
                       /\ syncRun' = [status |-> 200, error |-> "", user |-> user,
                                      events |-> EventsToStore(items, user)]
    /\ UNCHANGED <<profile, travelRun, taskVars, formVars, restVars>>

SyncNext == SyncCalendar

SpecSync == SyncInit /\ [][SyncNext]_vars

\* The Calendar page of the signed-in user: syncCalendar invokes
\* sync-calendar and then calculate-travel, any number of times.
CalendarPageInit ==
    /\ CalendarIdle
    /\ TaskIdle
    /\ FormsIdle
    /\ RestIdle

InvokeSyncCalendar ==
    /\ SyncCalendar
    /\ syncRun'.user \in {NoSync.user, Caller}

InvokeCalculateTravel == CalculateTravel

CalendarPageNext ==
    \/ InvokeSyncCalendar
    \/ InvokeCalculateTravel

SpecCalendarPage == CalendarPageInit /\ [][CalendarPageNext]_vars

OauthInit ==
    /\ RestIdle
    /\ TaskIdle
    /\ CalendarIdle
    /\ FormsIdle

OauthNext == GoogleOauthCallback

SpecOauth == OauthInit /\ [][OauthNext]_vars

PushInit ==
    /\ RestIdle
    /\ TaskIdle
    /\ CalendarIdle
    /\ FormsIdle

PushNext ==
    \/ CheckSubscription
    \/ SubscribeToPush
    \/ UnsubscribeFromPush

SpecPush == PushInit /\ [][PushNext]_vars

AddTaskInit ==
    /\ FormsIdle
    /\ RestIdle
    /\ TaskIdle
    /\ CalendarIdle

AddTaskNext ==
    \/ SetPriority
    \/ SetDifficulty
    \/ SetEstimatedTime
    \/ HandleSubmit

SpecAddTask == AddTaskInit /\ [][AddTaskNext]_vars

SettingsInit ==
    /\ FormsIdle
    /\ RestIdle
    /\ TaskIdle
    /\ CalendarIdle

SettingsNext ==
    \/ FetchProfile
    \/ EditDuration
    \/ HandleSave

SpecSettings == SettingsInit /\ [][SettingsNext]_vars

\* --------------------------------------------------------------- actions

Init ==
    /\ \E n \in 0..MaxTasks : \E f \in [1..n -> TaskAttrs] : data = Rows(f)
    /\ mood \in MoodProps
    /\ CalendarIdle
    /\ FormsIdle
    /\ RestIdle
    /\ pc = "start"
    /\ passed = <<>>
    /\ returned = <<>>
    /\ second = <<>>
    /\ tasksState = <<>>
    /\ listLoading = TRUE
    /\ focusCount = 0
    /\ suggestedTask = NoTask
    /\ loading = FALSE

\* sortTasksByMood(data, mood), current TaskList.
CallSortTasksByMood ==
    /\ pc = "start"
    /\ ~mood.isNull
    /\ LET c == SortTasksByMoodCall(data, mood.n)
       IN  /\ passed' = c.heap["tasks"]
           /\ returned' = c.heap[c.ret]
    /\ pc' = "sorted"
    /\ UNCHANGED <<restVars, calendarVars, formVars, data, mood, second, tasksState, listLoading, focusCount,
                   suggestedTask, loading>>

\* A second call with the array object the first call was given.
CallSortTasksByMoodAgain ==
    /\ pc = "sorted"
    /\ LET c == SortTasksByMoodCall(passed, mood.n)
       IN  /\ passed' = c.heap["tasks"]
           /\ second' = c.heap[c.ret]
    /\ pc' = "sortedAgain"
    /\ UNCHANGED <<restVars, calendarVars, formVars, data, mood, returned, tasksState, listLoading, focusCount,
                   suggestedTask, loading>>

\* A call with the array the first call returned.
CallSortTasksByMoodOnResult ==
    /\ pc = "sorted"
    /\ second' = SortTasksByMood(returned, mood.n)
    /\ pc' = "resorted"
    /\ UNCHANGED <<restVars, calendarVars, formVars, data, mood, passed, returned, tasksState, listLoading,
                   focusCount, suggestedTask, loading>>

\* sortTasksByMood(data, mood), earlier TaskList variant.
CallEarlierSortTasksByMood ==
    /\ pc = "start"
    /\ ~mood.isNull
    /\ LET c == EarlierSortTasksByMoodCall(data, mood.n)
       IN  /\ passed' = c.heap["tasks"]
           /\ returned' = c.heap[c.ret]
    /\ pc' = "earlierSorted"
    /\ UNCHANGED <<restVars, calendarVars, formVars, data, mood, second, tasksState, listLoading, focusCount,
                   suggestedTask, loading>>

\* fetchTasks of the current TaskList; user and error are what getUser and the
\* query answer.  (totalTime, summed from estimated_time, is not modelled.)
FetchTasks ==
    /\ pc = "start"
    /\ \E user \in BOOLEAN, error \in BOOLEAN :
          IF ~user
          THEN /\ pc' = "fetchTasksNoUser"
               /\ UNCHANGED <<tasksState, listLoading, focusCount>>
          ELSE IF error
          THEN /\ pc' = "fetchTasksError"
               /\ UNCHANGED <<tasksState, listLoading, focusCount>>
          ELSE LET sortedTasks == IF Truthy(mood) THEN SortTasksByMood(data, mood.n)
                                  ELSE data
               IN  /\ tasksState' = sortedTasks
                   /\ listLoading' = FALSE
                   /\ focusCount' = Len(sortedTasks)
                   /\ pc' = "fetchedTasks"
    /\ UNCHANGED <<restVars, calendarVars, formVars, data, mood, passed, returned, second, suggestedTask, loading>>

\* The effect of SuggestedTask on [mood, refreshKey] with a mood: fetchSuggestedTask.
FetchSuggestedTask ==
    /\ pc = "start"
    /\ Truthy(mood)
    /\ \E user \in BOOLEAN, error \in BOOLEAN :
          LET tasks == IncompleteQuery(data)
          IN  IF ~user
              THEN /\ loading' = TRUE
                   /\ pc' = "suggestNoUser"
                   /\ UNCHANGED suggestedTask
              ELSE IF error
              THEN /\ loading' = FALSE
                   /\ pc' = "suggestError"
                   /\ UNCHANGED suggestedTask
              ELSE IF Len(tasks) = 0
              THEN /\ suggestedTask' = NoTask
                   /\ loading' = FALSE
                   /\ pc' = "suggested"
              ELSE /\ suggestedTask' = Suggest(tasks, mood.n)
                   /\ loading' = FALSE
                   /\ pc' = "suggested"
    /\ UNCHANGED <<restVars, calendarVars, formVars, data, mood, passed, returned, second, tasksState, listLoading,
                   focusCount>>

\* The same effect without a mood: setSuggestedTask(null).
ClearSuggestedTask ==
    /\ pc = "start"
    /\ ~Truthy(mood)
    /\ suggestedTask' = NoTask
    /\ pc' = "suggestionCleared"
    /\ UNCHANGED <<restVars, calendarVars, formVars, data, mood, passed, returned, second, tasksState, listLoading,
                   focusCount, loading>>

Next ==
    \/ CallSortTasksByMood
    \/ CallSortTasksByMoodAgain
    \/ CallSortTasksByMoodOnResult
    \/ CallEarlierSortTasksByMood
    \/ FetchTasks
    \/ FetchSuggestedTask
    \/ ClearSuggestedTask

Spec == Init /\ [][Next]_vars

TypeOK ==
    /\ Len(data) <= MaxTasks
    /\ \A i \in 1..Len(data) : data[i].id = i
    /\ mood \in MoodProps
    /\ focusCount \in 0..Len(data)

\* ---------------------------------------------------------------- claims

\* The elements of an array, as a set.
Elements(arr) == {arr[j] : j \in 1..Len(arr)}

\* The rows of data that are not completed.
IncompleteRows == {data[i] : i \in {k \in 1..Len(data) : ~data[k].completed}}

\* The rows a low mood is to show: not completed, difficulty at most 3.
EligibleRows == {t \in IncompleteRows : t.difficulty <= 3}

\* The score of the neutral and high bands, weights written out.
Score(t) ==
    (CASE t.priority = "high" -> 3 [] t.priority = "medium" -> 2 [] OTHER -> 1) * 10
        + t.difficulty

\* The sort key of the band of mood m.
SortKey(t, m) == IF m <= 2 THEN t.difficulty ELSE Score(t)

\* C1: for mood 1 or 2 sortTasksByMood returns exactly the rows that are not
\* completed and have difficulty <= 3, each once, ascending by difficulty.
C1_LowBandFiltersAndSorts ==
    (pc = "sorted" /\ mood.n \in {1, 2}) =>
        /\ Elements(returned) = EligibleRows
        /\ Len(returned) = Cardinality(EligibleRows)
        /\ \A j \in 1..(Len(returned) - 1) :
              returned[j].difficulty <= returned[j + 1].difficulty

\* C1 witness: a low-mood call that drops an incomplete hard task and keeps an
\* easy one.
C1_Witness ==
    /\ pc = "sorted"
    /\ mood.n \in {1, 2}
    /\ \E t \in IncompleteRows : t.difficulty > 3
    /\ Len(returned) >= 1

\* C2: for mood 3, 4 or 5 the output is a permutation of the incomplete rows:
\* as many as there are, no row added, duplicated or dropped, none completed.
C2_PermutationOfIncomplete ==
    (pc = "sorted" /\ mood.n \in 3..5) =>
        /\ Len(returned) = Cardinality({i \in 1..Len(data) : ~data[i].completed})
        /\ Elements(returned) = IncompleteRows
        /\ \A i, j \in 1..Len(returned) : returned[i] = returned[j] => i = j
        /\ \A j \in 1..Len(returned) : ~returned[j].completed

\* C2 witness: a call with mood 3..5 on rows of which one is completed and one
\* is not.
C2_Witness ==
    /\ pc = "sorted"
    /\ mood.n \in 3..5
    /\ \E i \in 1..Len(data) : data[i].completed
    /\ Len(returned) >= 1

\* C3: for mood 3, 4 or 5 the output is descending by
\* score = priorityWeight * 10 + difficulty (high 3, medium 2, low 1), and the
\* high band orders the rows as the neutral band does.
C3_DescendingByScore ==
    (pc = "sorted" /\ mood.n \in 3..5) =>
        /\ \A j \in 1..(Len(returned) - 1) : Score(returned[j]) >= Score(returned[j + 1])
        /\ returned = SortTasksByMood(data, 3)

\* C3 witness: a high-mood call that moves a higher score in front of a lower
\* one with the greater difficulty.
C3_Witness ==
    /\ pc = "sorted"
    /\ mood.n \in {4, 5}
    /\ Len(returned) = 2
    /\ Len(data) = 2
    /\ returned[1] = data[2]
    /\ data[1].difficulty > data[2].difficulty

\* C4: in every band two rows with equal sort key come out in their input
\* order (the id of a row is its position in the input).
C4_StableOnTies ==
    pc = "sorted" =>
        \A i, j \in 1..Len(returned) :
            (i < j /\ SortKey(returned[i], mood.n) = SortKey(returned[j], mood.n))
                => returned[i].id < returned[j].id

\* C4 witness: a call that returns two different rows of equal key.
C4_Witness ==
    /\ pc = "sorted"
    /\ Len(returned) = 2
    /\ SortKey(returned[1], mood.n) = SortKey(returned[2], mood.n)
    /\ returned[1].priority /= returned[2].priority

\* The incomplete rows in query order, as fetchSuggestedTask receives them.
OpenTasks == IncompleteQuery(data)

\* The first of the open tasks with an index in S, or the first open task
\* when S is empty.
FirstIn(S) == IF S = {} THEN OpenTasks[1] ELSE OpenTasks[MinIndex(S)]

\* C5: for mood >= 4 the suggestion is the first open task with
\* difficulty >= 4 and priority high; if there is none, the first with priority
\* high; if there is none, the first open task.
C5_HighMoodFallbackChain ==
    (pc = "suggested" /\ mood.n >= 4 /\ OpenTasks /= <<>>) =>
        LET hardHigh == {i \in 1..Len(OpenTasks) :
                            OpenTasks[i].difficulty >= 4 /\ OpenTasks[i].priority = "high"}
            high == {i \in 1..Len(OpenTasks) : OpenTasks[i].priority = "high"}
        IN  suggestedTask = (IF hardHigh /= {} THEN FirstIn(hardHigh) ELSE FirstIn(high))

\* C6: for mood <= 2 the suggestion is an open task of difficulty <= 3 with the
\* least difficulty among those, the first such in input order; there is no
\* suggestion when no open task has difficulty <= 3.
C6_LowMoodEasiestFirst ==
    (pc = "suggested" /\ mood.n <= 2) =>
        IF EligibleRows = {} THEN suggestedTask = NoTask
        ELSE /\ suggestedTask \in EligibleRows
             /\ \A t \in EligibleRows : suggestedTask.difficulty <= t.difficulty
             /\ \A t \in EligibleRows :
                   t.difficulty = suggestedTask.difficulty => suggestedTask.id <= t.id

\* C6 witness: a low-mood suggestion taken from two open easy tasks of equal
\* difficulty.
C6_Witness ==
    /\ pc = "suggested"
    /\ mood.n <= 2
    /\ Len(data) = 2
    /\ data[1] \in EligibleRows
    /\ data[2] \in EligibleRows
    /\ data[1].difficulty = data[2].difficulty
    /\ suggestedTask = data[1]

\* C7: for mood 3 the suggestion is the first open task of medium priority,
\* and the first open task when none has medium priority.
C7_NeutralMoodFirstMedium ==
    (pc = "suggested" /\ mood.n = 3 /\ OpenTasks /= <<>>) =>
        suggestedTask =
            FirstIn({i \in 1..Len(OpenTasks) : OpenTasks[i].priority = "medium"})

\* C7 witness: a neutral suggestion that passes over a low-priority first task
\* for a medium one.
C7_Witness ==
    /\ pc = "suggested"
    /\ mood.n = 3
    /\ Len(OpenTasks) = 2
    /\ OpenTasks[1].priority = "low"
    /\ suggestedTask = OpenTasks[2]

\* The defined mood nearest to m.
NearestMood(m) == IF m <= 0 THEN 1 ELSE IF m >= 6 THEN 5 ELSE m

\* C8: for an integer mood outside 1..5 the ranking is that of the nearest
\* defined band, both as sortTasksByMood returns it and as TaskList shows it
\* after fetchTasks.
C8_OutOfRangeMoodRanksAsNearestBand ==
    (~mood.isNull /\ mood.n \notin 1..5) =>
        /\ pc = "sorted" => returned = SortTasksByMood(data, NearestMood(mood.n))
        /\ pc = "fetchedTasks" => tasksState = SortTasksByMood(data, NearestMood(mood.n))

\* C9: a second call with the same array and mood returns what the first
\* returned, and a call on the returned array returns it unchanged.
C9_RankingIdempotent ==
    /\ pc = "sortedAgain" => second = returned
    /\ pc = "resorted" => second = returned

\* C9 witness: an output the first call had to reorder, ranked once more.
C9_Witness ==
    /\ pc = "resorted"
    /\ Len(returned) = 2
    /\ returned[1] = data[2]
    /\ second = returned

\* C10: after a call of sortTasksByMood, current or earlier variant, the array
\* passed in holds the same elements in the same order as before.
C10_InputNotMutated ==
    pc \in {"sorted", "sortedAgain", "earlierSorted"} => passed = data

\* C10 witness: a call that returns the rows in another order than it was
\* given them.
C10_Witness ==
    /\ pc = "sorted"
    /\ Len(returned) = 2
    /\ returned[1] = data[2]
    /\ returned[2] = data[1]

\* ----------------------------------------------- claims: calculate-travel

\* The last invocation answered 200.
RunSucceeded == travelRun.status = 200

\* The events of the last run's batch, and those whose lookup gave a route.
Batch == DOMAIN travelRun.answers

Estimated ==
    { id \in Batch : /\ travelRun.answers[id].kind = "json"
                     /\ travelRun.answers[id].status = "OK"
                     /\ travelRun.answers[id].routes /= <<>> }

RowOf(id) == CHOOSE r \in calendar : r.id = id

TravelDuration(id) == travelRun.answers[id].routes[1]

\* C11: after a successful run, every event whose lookup gave a route has
\* recommended_leave_time = start - (travelDuration + travel_buffer_time * 60)
\* seconds and travel_time_seconds = travelDuration, without the buffer.
C11_LeaveTimeAndTravelSecondsStored ==
    RunSucceeded =>
        \A id \in Estimated :
            /\ RowOf(id).travel_time_seconds = Val(TravelDuration(id))
            /\ RowOf(id).recommended_leave_time /= Null
            /\ DateParse(RowOf(id).recommended_leave_time[1]) =
                   DateParse(RowOf(id).start_time)
                       - (TravelDuration(id) + profile.travel_buffer_time * 60) * 1000

\* C11 witness: a stored leave time with a non-zero buffer that falls on the
\* day before the event.
C11_Witness ==
    /\ RunSucceeded
    /\ profile.travel_buffer_time = 15
    /\ \E id \in Estimated :
          /\ RowOf(id).travel_time_seconds = Val(1800)
          /\ RowOf(id).recommended_leave_time = Val([day |-> -1, msOfDay |-> DayMs - 300000])

\* The instants the operation hands out for an event: every field of its
\* update other than the id and the duration.
OutputInstants(update) ==
    { DateParse(update[f]) : f \in DOMAIN update \ {"id", "travel_time_seconds"} }

\* C12: the locals of an iteration form the chain getReadyTime = leaveTime -
\* getting_ready_time, cookStartTime = getReadyTime - cooking_time, wakeUpTime
\* = cookStartTime - wake_up_margin (minutes), and all four instants are in
\* the event's output.
C12_FourInstantsAreOutput ==
    RunSucceeded =>
        \A i \in DOMAIN travelRun.locals :
            LET c == travelRun.locals[i].chain
            IN  /\ c.getReadyTime = c.leaveTime - profile.getting_ready_time * 60000
                /\ c.cookStartTime = c.getReadyTime - profile.cooking_time * 60000
                /\ c.wakeUpTime = c.cookStartTime - profile.wake_up_margin * 60000
                /\ travelRun.updates[i].id = travelRun.locals[i].id
                /\ {c.leaveTime, c.getReadyTime, c.cookStartTime, c.wakeUpTime}
                       \subseteq OutputInstants(travelRun.updates[i])

\* The durations of the caller's profile are non-negative.
NonNegativeDurations ==
    /\ profile.travel_buffer_time >= 0
    /\ profile.getting_ready_time >= 0
    /\ profile.cooking_time >= 0
    /\ profile.wake_up_margin >= 0

\* C13: with non-negative durations the computed instants are ordered
\* wakeUpTime <= cookStartTime <= getReadyTime <= leaveTime <= eventStart, and
\* each is the exact difference, also before the midnight of the event's day.
C13_ChainMonotoneUnclamped ==
    (RunSucceeded /\ NonNegativeDurations) =>
        \A i \in DOMAIN travelRun.locals :
            LET c == travelRun.locals[i].chain
                id == travelRun.locals[i].id
            IN  /\ c.travelSeconds >= 0
                /\ c.eventStart = DateParse(RowOf(id).start_time)
                /\ c.wakeUpTime <= c.cookStartTime
                /\ c.cookStartTime <= c.getReadyTime
                /\ c.getReadyTime <= c.leaveTime
                /\ c.leaveTime <= c.eventStart
                /\ c.wakeUpTime = c.eventStart - c.travelSeconds * 1000
                                     - (profile.travel_buffer_time + profile.getting_ready_time
                                        + profile.cooking_time + profile.wake_up_margin) * 60000

\* C13 witness: an event shortly after midnight whose wake-up instant lies on
\* the day before, strictly below the other instants.
C13_Witness ==
    /\ RunSucceeded
    /\ NonNegativeDurations
    /\ \E i \in DOMAIN travelRun.locals :
          LET c == travelRun.locals[i].chain
          IN  /\ c.eventStart >= 0
              /\ c.wakeUpTime < 0
              /\ c.wakeUpTime < c.cookStartTime
              /\ c.cookStartTime < c.getReadyTime
              /\ c.getReadyTime < c.leaveTime
              /\ c.leaveTime < c.eventStart

\* The events whose lookup threw or gave no route (the set F of a batch).
Skipped == Batch \ Estimated

\* The rows the events query of the last run matched.
Matching ==
    { r.id : r \in { e \in calendar : /\ e.user_id = Caller
                                       /\ e.location /= Null
                                       /\ DateParse(e.start_time) >= travelRun.now } }

\* C14: a lookup that throws or gives no route never turns the response into
\* an error; the run over the N matching events stores every event outside F
\* and reports the count N - |F|.
C14_LookupFailuresIsolated ==
    /\ travelRun.status = 400 =>
           travelRun.error \in {"No authorization header", "Not authenticated",
                                "Home location not set in profile", "eventsError"}
    /\ RunSucceeded =>
           /\ Batch = Matching
           /\ travelRun.updated = Cardinality(Batch) - Cardinality(Skipped)
           /\ {travelRun.updates[i].id : i \in DOMAIN travelRun.updates} = Batch \ Skipped
           /\ \A id \in Batch \ Skipped :
                  /\ RowOf(id).travel_time_seconds = Val(TravelDuration(id))
                  /\ RowOf(id).recommended_leave_time /= Null

\* C14 witness: a batch of two events, the first lookup throws, the second is
\* stored and counted.
C14_Witness ==
    /\ RunSucceeded
    /\ travelRun.events = <<1, 2>>
    /\ travelRun.answers[1].kind = "throws"
    /\ travelRun.updated = 1
    /\ RowOf(2).travel_time_seconds /= Null

\* C15, as claimed: after a run, an event the run got no estimate for has
\* NULL travel_time_seconds and recommended_leave_time, whatever was stored.
C15_SkippedEventsHaveNoSchedule ==
    RunSucceeded =>
        \A id \in Skipped :
            /\ RowOf(id).travel_time_seconds = Null
            /\ RowOf(id).recommended_leave_time = Null

\* C15, amended: a run does not write an event it got no estimate for; the
\* event's two travel columns keep the values they had before the run, NULL
\* only if no earlier run stored a schedule.
C15_SkippedEventsKeepStoredFields ==
    [][RunSucceeded' =>
          \A id \in Skipped' : RowOf(id)' = RowOf(id)]_vars

\* C15 witness: an event skipped by the last run still carries the schedule
\* an earlier run stored, next to an event the last run wrote.
C15_Witness ==
    /\ RunSucceeded
    /\ \E id \in Skipped : RowOf(id).travel_time_seconds /= Null
    /\ \E id \in Estimated : RowOf(id).travel_time_seconds /= Null

\* The row a run with the given answers leaves for row r, whatever the order
\* in which the events are processed.
Recomputed(r, answers, prof) ==
    IF /\ r.id \in DOMAIN answers
       /\ answers[r.id].kind = "json"
       /\ answers[r.id].status = "OK"
       /\ answers[r.id].routes /= <<>>
    THEN [r EXCEPT
            !.travel_time_seconds = Val(answers[r.id].routes[1]),
            !.recommended_leave_time =
                Val(ToISOString(DateParse(r.start_time)
                      - (answers[r.id].routes[1] + prof.travel_buffer_time * 60) * 1000))]
    ELSE r

\* C16: the stored state after a run depends only on the rows, the profile
\* and the answers, not on the processing order, and a run that repeats the
\* answers of the run before it leaves the table as it was.
C16_RecomputeIdempotentAnyOrder ==
    [][/\ RunSucceeded' =>
             calendar' = {Recomputed(r, travelRun'.answers, profile) : r \in calendar}
       /\ (RunSucceeded /\ RunSucceeded' /\ travelRun'.answers = travelRun.answers) =>
             calendar' = calendar]_vars

\* C16 witness: two events processed in descending id order, both stored
\* with different estimates.
C16_Witness ==
    /\ RunSucceeded
    /\ travelRun.events = <<2, 1>>
    /\ Estimated = {1, 2}
    /\ RowOf(1).travel_time_seconds = Val(600)
    /\ RowOf(2).travel_time_seconds = Val(1800)

\* ------------------------------------------ claims: earlier TaskList variant

\* The score of the earlier variant's high band: priority weight 3/2/1 plus
\* difficulty.
EarlierScore(t) ==
    (CASE t.priority = "high" -> 3 [] t.priority = "medium" -> 2 [] OTHER -> 1)
        + t.difficulty

\* What the current variant's low band keeps.
KeptByCurrentLowBand(t) == ~t.completed /\ t.difficulty <= 3

\* C17: the earlier sortTasksByMood returns a permutation of all rows it is
\* given: ascending by difficulty for mood <= 2 (the current variant's result
\* once the completed and hard rows are taken out), descending by
\* priorityWeight + difficulty for mood >= 4, the input order for mood 3.
C17_EarlierVariantOnlyReorders ==
    pc = "earlierSorted" =>
        /\ Len(returned) = Len(data)
        /\ Elements(returned) = Elements(data)
        /\ mood.n <= 2 =>
               /\ \A i, j \in 1..Len(returned) :
                      i < j => returned[i].difficulty <= returned[j].difficulty
               /\ SelectSeq(returned, KeptByCurrentLowBand) = SortTasksByMood(data, mood.n)
        /\ mood.n >= 4 =>
               \A i, j \in 1..Len(returned) :
                   i < j => EarlierScore(returned[i]) >= EarlierScore(returned[j])
        /\ mood.n = 3 => returned = data

\* C17 witness: for a low mood the earlier variant returns a completed hard
\* row, after an easier one that came second in the input, while the current
\* variant returns one row only.
C17_Witness ==
    /\ pc = "earlierSorted"
    /\ mood.n = 2
    /\ Len(data) = 2
    /\ returned[1] = data[2]
    /\ returned[2].completed
    /\ returned[2].difficulty = 5
    /\ Len(SortTasksByMood(data, mood.n)) = 1

\* ------------------------------------------------------- claims: the forms

\* C18: every row AddTaskDialog inserted has an integer difficulty in 1..5
\* and a priority among low, medium, high, both present, and no completed
\* value of true.
C18_InsertedTasksWithinDomains ==
    \A i \in 1..Len(tasksTable) :
        LET row == tasksTable[i]
        IN  /\ {"difficulty", "priority"} \subseteq DOMAIN row
            /\ row.difficulty \in 1..5
            /\ row.priority \in {"low", "medium", "high"}
            /\ "completed" \in DOMAIN row => row["completed"] /= TRUE

\* C18 witness: a row inserted with the slider at its maximum and priority
\* high, followed by one inserted with the slider at its minimum.
C18_Witness ==
    /\ Len(tasksTable) = 2
    /\ tasksTable[1].difficulty = 5
    /\ tasksTable[1].priority = "high"
    /\ tasksTable[2].difficulty = 1
    /\ tasksTable[2].priority = "low"

\* C19: the four routine durations in the profiles row are non-negative
\* integers whatever was typed into the four inputs before a save.
C19_SavedDurationsNonNegative ==
    \A field \in {"cooking_time", "getting_ready_time", "travel_buffer_time",
                   "wake_up_margin"} :
        profile[field] \in Nat

\* -------------------------------------------------- claims: sync-calendar

\* No two rows of calendar_events share (user_id, google_event_id), and
\* after a successful run every event sent is stored, once, with the values
\* sent, under the caller's user_id.
OneRowPerEvent ==
    /\ \A r1, r2 \in calendar :
           (r1.user_id = r2.user_id /\ r1.google_event_id = r2.google_event_id) => r1 = r2
    /\ syncRun.status = 200 =>
           \A i \in DOMAIN syncRun.events :
               /\ syncRun.events[i].user_id = syncRun.user
               /\ \E r \in calendar :
                      /\ r.user_id = syncRun.user
                      /\ r.google_event_id = syncRun.events[i].google_event_id
                      /\ r.start_time = syncRun.events[i].start_time

\* A step of sync-calendar keeps every stored row under its id and key,
\* leaves the rows of other users as they are, and adds rows for the caller
\* only.
WritesCallerRowsOnly ==
    /\ \A r \in calendar :
           \E r2 \in calendar' :
               /\ r2.id = r.id
               /\ r2.user_id = r.user_id
               /\ r2.google_event_id = r.google_event_id
               /\ r.user_id /= syncRun'.user => r2 = r
    /\ \A r2 \in calendar' \ calendar : r2.user_id = syncRun'.user

\* C20: after any runs of sync-calendar for any users the table holds at
\* most one row per (user_id, google_event_id); syncing a stored event again
\* updates its row, and a run writes rows of its caller only.
C20_OneRowPerUserAndGoogleEvent == []OneRowPerEvent /\ [][WritesCallerRowsOnly]_vars

\* C20 witness: both users hold the same Google event id, and the last run
\* sent only the event of the first row while a later row exists, so that
\* row was synced again and carries the start sent last.
C20_Witness ==
    /\ syncRun.status = 200
    /\ Len(syncRun.events) = 1
    /\ Cardinality(calendar) = 3
    /\ \E r1, r2 \in calendar :
          /\ r1.user_id /= r2.user_id
          /\ r1.google_event_id = r2.google_event_id
    /\ \E r \in calendar :
          /\ r.id = 1
          /\ r.user_id = syncRun.user
          /\ r.google_event_id = syncRun.events[1].google_event_id
          /\ r.start_time = syncRun.events[1].start_time

\* ------------------------------------- claims: suggestion against the list

\* C28: for mood <= 2 the suggestion is the first row of the list the current
\* sortTasksByMood returns for the same rows and mood, and there is no
\* suggestion exactly when that list is empty.
C28_LowMoodSuggestionHeadsTheList ==
    (pc = "suggested" /\ mood.n <= 2) =>
        LET list == SortTasksByMood(data, mood.n)
        IN  /\ (suggestedTask = NoTask) <=> (list = <<>>)
            /\ list /= <<>> => suggestedTask = list[1]

\* C28 witness: the list has two rows, reordered from the query order, and
\* the suggestion is the row the list puts first.
C28_Witness ==
    /\ pc = "suggested"
    /\ mood.n = 1
    /\ Len(data) = 2
    /\ ~data[1].completed
    /\ ~data[2].completed
    /\ data[1].difficulty = 3
    /\ data[2].difficulty = 2
    /\ suggestedTask = data[2]
    /\ SortTasksByMood(data, mood.n) = <<data[2], data[1]>>

\* ------------------------------------- claims: calculate-travel, the frame

\* Row r after the step: the row with the same id.
After(r) == CHOOSE r2 \in calendar' : r2.id = r.id

C27_LoadingClearedWhenFetchEnds ==
    pc \in {"suggestNoUser", "suggestError", "suggested"} => loading = FALSE

\* ------------------------------------ claims: sync and travel together

\* C23: every stored event with a recommended_leave_time has
\* recommended_leave_time = start_time - (travel_time_seconds +
\* travel_buffer_time * 60) seconds for the start_time it has now.
C23_LeaveTimeMatchesCurrentStart ==
    \A r \in calendar :
        r.recommended_leave_time /= Null =>
            /\ r.travel_time_seconds /= Null
            /\ DateParse(r.recommended_leave_time[1]) =
                   DateParse(r.start_time)
                       - (r.travel_time_seconds[1] + profile.travel_buffer_time * 60) * 1000

\* ------------------------------------------- claims: google-oauth-callback

\* C24: a request to google-oauth-callback changes the stored tokens of no
\* profile other than the requester's.
C24_TokensStoredForRequesterOnly ==
    [][\A u \in Users :
          u /= oauthRun'.requester => googleTokens'[u] = googleTokens[u]]_vars

RlsInit ==
    /\ RestIdle
    /\ TaskIdle
    /\ CalendarIdle
    /\ FormsIdle

RlsNext ==
    \/ ClientSelect
    \/ ClientInsert
    \/ ClientUpdate
    \/ ClientDelete

SpecRls == RlsInit /\ [][RlsNext]_vars

\* ------------------------------------------------- Dashboard: TaskList

\* Bound: fetchTasks calls in flight at once.
MaxListFetches == 2

\* The moods MoodSelector passes to onMoodSelect.
SelectorMoods == {Num(n) : n \in 1..5}

\* The user's tasks when the Dashboard mounts, newest first.
ExampleTasks ==
    Rows(<<[difficulty |-> 5, priority |-> "low", completed |-> FALSE],
           [difficulty |-> 1, priority |-> "high", completed |-> FALSE]>>)

\* .update({ completed: !completed }).eq("id", taskId)
SetCompleted(rows, taskId, completed) ==
    [i \in DOMAIN rows |-> IF rows[i].id = taskId
                           THEN [rows[i] EXCEPT !.completed = completed]
                           ELSE rows[i]]

\* A fetchTasks call in flight: the mood of its closure, the rows its query
\* returns, and whether toggleComplete awaits it to call onTasksChange.
ListFetch(m, rows, bump) == [m |-> m, rows |-> rows, bump |-> bump]

\* <MoodSelector onMoodSelect={setSelectedMood} />: TaskList re-renders with
\* the new mood prop; its effect depends on [refreshKey] and does not run.
SelectMood ==
    /\ mood = NoMood
    /\ mood' \in SelectorMoods
    /\ UNCHANGED <<data, pc, passed, returned, second, tasksState, listLoading,
                   focusCount, suggestedTask, loading>>
    /\ UNCHANGED <<calendarVars, formVars, restVars>>

\* "Change mood": setSelectedMood(null)
ChangeMood ==
    /\ mood /= NoMood
    /\ mood' = NoMood
    /\ UNCHANGED <<data, pc, passed, returned, second, tasksState, listLoading,
                   focusCount, suggestedTask, loading>>
    /\ UNCHANGED <<calendarVars, formVars, restVars>>

\* A row of tasks changes outside TaskList; the postgres_changes callback
\* subscribed by the effect calls the fetchTasks of the render it ran in.
TaskChanged ==
    /\ Cardinality(listFetches) < MaxListFetches
    /\ \E i \in DOMAIN data :
          /\ data' = SetCompleted(data, data[i].id, ~data[i].completed)
          /\ listFetches' = listFetches \cup {ListFetch(channelMood, data', FALSE)}
    /\ UNCHANGED <<mood, pc, passed, returned, second, tasksState, listLoading,
                   focusCount, suggestedTask, loading>>
    /\ UNCHANGED <<channelMood, fetchedRows, suggestFetches>>
    /\ UNCHANGED <<calendarVars, formVars, oauthVars, pushVars, rlsVars>>

\* toggleComplete of a displayed task: the update, then fetchTasks of the
\* current render; the update also reaches the postgres_changes callback.
ToggleComplete ==
    \E i \in DOMAIN tasksState, error \in BOOLEAN :
        IF error
        THEN UNCHANGED vars
        ELSE /\ data' = SetCompleted(data, tasksState[i].id, ~tasksState[i].completed)
             /\ listFetches' = listFetches \cup {ListFetch(mood, data', TRUE),
                                                  ListFetch(channelMood, data', FALSE)}
             /\ Cardinality(listFetches') <= MaxListFetches
             /\ UNCHANGED <<mood, pc, passed, returned, second, tasksState, listLoading,
                            focusCount, suggestedTask, loading>>
             /\ UNCHANGED <<channelMood, fetchedRows, suggestFetches>>
             /\ UNCHANGED <<calendarVars, formVars, oauthVars, pushVars, rlsVars>>

\* A fetchTasks call in flight runs to its end; after the one toggleComplete
\* awaits, onTasksChange bumps refreshKey and the effect runs again.
FetchTasksDone ==
    /\ \E f \in listFetches, user \in BOOLEAN, error \in BOOLEAN :
          /\ IF user /\ ~error
             THEN LET sortedTasks == IF Truthy(f.m) THEN SortTasksByMood(f.rows, f.m.n)
                                     ELSE f.rows
                  IN  /\ tasksState' = sortedTasks
                      /\ listLoading' = FALSE
                      /\ focusCount' = Len(sortedTasks)
                      /\ fetchedRows' = f.rows
             ELSE UNCHANGED <<tasksState, listLoading, focusCount, fetchedRows>>
          /\ IF f.bump
             THEN /\ channelMood' = mood
                  /\ listFetches' = (listFetches \ {f}) \cup {ListFetch(mood, data, FALSE)}
             ELSE /\ channelMood' = channelMood
                  /\ listFetches' = listFetches \ {f}
    /\ UNCHANGED <<data, mood, pc, passed, returned, second, suggestedTask, loading>>
    /\ UNCHANGED suggestFetches
    /\ UNCHANGED <<calendarVars, formVars, oauthVars, pushVars, rlsVars>>

\* TaskList has mounted in a Dashboard with no mood selected: the effect has
\* subscribed and called fetchTasks.
TaskListInit ==
    /\ data = ExampleTasks
    /\ mood = NoMood
    /\ pc = "idle"
    /\ passed = <<>>
    /\ returned = <<>>
    /\ second = <<>>
    /\ tasksState = <<>>
    /\ listLoading = TRUE
    /\ focusCount = 0
    /\ suggestedTask = NoTask
    /\ loading = FALSE
    /\ channelMood = NoMood
    /\ listFetches = {ListFetch(NoMood, data, FALSE)}
    /\ fetchedRows = <<>>
    /\ suggestFetches = {}
    /\ CalendarIdle
    /\ FormsIdle
    /\ OauthIdle
    /\ PushIdle
    /\ RlsIdle

TaskListNext ==
    \/ SelectMood
    \/ ChangeMood
    \/ TaskChanged
    \/ ToggleComplete
    \/ FetchTasksDone

SpecTaskList == TaskListInit /\ [][TaskListNext]_vars

\* -------------------------------------------- Dashboard: SuggestedTask

\* Bound: fetchSuggestedTask calls in flight at once.
MaxSuggestFetches == 2

\* The Dashboard of a signed-in user whose requests all succeed: getUser
\* resolves to the user and the query returns without error.
SignedIn == {TRUE}

QueryErrors == {FALSE}

\* A fetchSuggestedTask call in flight: the mood of its closure and the rows
\* its query returns.
SuggestFetch(m, tasks) == [m |-> m, tasks |-> tasks]

\* fetchSuggestedTask up to its first await: setLoading(true), request sent.
StartFetchSuggestedTask ==
    /\ Cardinality(suggestFetches) < MaxSuggestFetches
    /\ loading' = TRUE
    /\ suggestFetches' = suggestFetches \cup {SuggestFetch(mood', IncompleteQuery(data'))}
    /\ UNCHANGED suggestedTask

\* The effect on [mood, refreshKey]
MoodEffect ==
    IF Truthy(mood')
    THEN StartFetchSuggestedTask
    ELSE /\ suggestedTask' = NoTask
         /\ UNCHANGED <<loading, suggestFetches>>

\* setSelectedMood(n) from the MoodSelector, then the effects of SuggestedTask
MoodSelected ==
    /\ mood = NoMood
    /\ mood' \in SelectorMoods
    /\ data' = data
    /\ MoodEffect
    /\ UNCHANGED <<pc, passed, returned, second, tasksState, listLoading, focusCount>>
    /\ UNCHANGED <<channelMood, listFetches, fetchedRows>>
    /\ UNCHANGED <<calendarVars, formVars, oauthVars, pushVars, rlsVars>>

\* setSelectedMood(null) from "Change mood", then the effects of SuggestedTask
MoodCleared ==
    /\ mood /= NoMood
    /\ mood' = NoMood
    /\ data' = data
    /\ MoodEffect
    /\ UNCHANGED <<pc, passed, returned, second, tasksState, listLoading, focusCount>>
    /\ UNCHANGED <<channelMood, listFetches, fetchedRows>>
    /\ UNCHANGED <<calendarVars, formVars, oauthVars, pushVars, rlsVars>>

\* onTasksChange bumps refreshKey: the effect on [mood, refreshKey] runs again.
RefreshKeyBumped ==
    /\ mood' = mood
    /\ data' = data
    /\ MoodEffect
    /\ UNCHANGED <<pc, passed, returned, second, tasksState, listLoading, focusCount>>
    /\ UNCHANGED <<channelMood, listFetches, fetchedRows>>
    /\ UNCHANGED <<calendarVars, formVars, oauthVars, pushVars, rlsVars>>

\* A row of tasks changes; with a mood the component is subscribed and the
\* postgres_changes callback calls fetchSuggestedTask.
RealtimeTaskChange ==
    /\ mood' = mood
    /\ \E i \in DOMAIN data :
          data' = SetCompleted(data, data[i].id, ~data[i].completed)
    /\ IF Truthy(mood)
       THEN StartFetchSuggestedTask
       ELSE UNCHANGED <<suggestedTask, loading, suggestFetches>>
    /\ UNCHANGED <<pc, passed, returned, second, tasksState, listLoading, focusCount>>
    /\ UNCHANGED <<channelMood, listFetches, fetchedRows>>
    /\ UNCHANGED <<calendarVars, formVars, oauthVars, pushVars, rlsVars>>

\* A fetchSuggestedTask call in flight runs from its awaits to its end.
FetchSuggestedTaskDone ==
    /\ \E f \in suggestFetches, user \in SignedIn, error \in QueryErrors :
          /\ suggestFetches' = suggestFetches \ {f}
          /\ IF ~user
             THEN UNCHANGED <<suggestedTask, loading>>
             ELSE IF error
             THEN /\ loading' = FALSE
                  /\ UNCHANGED suggestedTask
             ELSE IF Len(f.tasks) = 0
             THEN /\ suggestedTask' = NoTask
                  /\ loading' = FALSE
             ELSE /\ suggestedTask' = Suggest(f.tasks, f.m.n)
                  /\ loading' = FALSE
    /\ UNCHANGED <<data, mood, pc, passed, returned, second, tasksState, listLoading,
                   focusCount>>
    /\ UNCHANGED <<channelMood, listFetches, fetchedRows>>
    /\ UNCHANGED <<calendarVars, formVars, oauthVars, pushVars, rlsVars>>

\* SuggestedTask has mounted in a Dashboard with no mood selected.
SuggestedTaskInit ==
    /\ data = ExampleTasks
    /\ mood = NoMood
    /\ pc = "idle"
    /\ passed = <<>>
    /\ returned = <<>>
    /\ second = <<>>
    /\ tasksState = <<>>
    /\ listLoading = TRUE
    /\ focusCount = 0
    /\ suggestedTask = NoTask
    /\ loading = FALSE
    /\ CalendarIdle
    /\ FormsIdle
    /\ RestIdle

SuggestedTaskNext ==
    \/ MoodSelected
    \/ MoodCleared
    \/ RefreshKeyBumped
    \/ RealtimeTaskChange
    \/ FetchSuggestedTaskDone

SpecSuggestedTask == SuggestedTaskInit /\ [][SuggestedTaskNext]_vars

\* ------------------------------------------- claims: PushNotificationSetup

\* C26: isSubscribed is true exactly when the browser holds a push
\* subscription and push_subscriptions has a row for its endpoint.
C26_IsSubscribedMatchesBrowserAndRow ==
    isSubscribed <=>
        /\ browserSubscription /= Null
        /\ \E r \in pushSubscriptions : r.endpoint = browserSubscription[1]

\* ------------------------------------------------------ claims: Dashboard

\* C22: with a mood selected and no fetchTasks in flight, the list TaskList
\* shows is the ranking, for the selected mood, of the rows fetched last.
C22_ListRankedForSelectedMood ==
    (~mood.isNull /\ listFetches = {}) =>
        tasksState = SortTasksByMood(fetchedRows, mood.n)

\* C25: with a mood selected and no fetchSuggestedTask in flight, the
\* suggestion is the one computed for the selected mood from the current
\* incomplete tasks, whatever order the overlapping fetches completed in.
C25_SuggestionForCurrentMoodAndData ==
    (Truthy(mood) /\ suggestFetches = {}) =>
        LET tasks == IncompleteQuery(data)
        IN  suggestedTask = IF Len(tasks) = 0 THEN NoTask ELSE Suggest(tasks, mood.n)

\* -------------------------------------------- claims: row level security

\* The rows of a table a step reads, removes, adds or rewrites.
Touched(table) ==
    (rlsTables[table] \ rlsTables'[table]) \cup (rlsTables'[table] \ rlsTables[table])
        \cup (IF rlsRun'.table = table THEN rlsRun'.rows ELSE {})

\* C21: a statement of a client signed in as A returns and changes only rows
\* whose user_id is A, before and after the change, in all four tables; and
\* no client statement updates a row of push_subscriptions.
C21_ClientsTouchOnlyOwnRows ==
    [][/\ \A table \in Tables : \A r \in Touched(table) : rlsRun'.uid = Val(r.user_id)
       /\ rlsRun'.command = "UPDATE" =>
              rlsTables'["push_subscriptions"] = rlsTables["push_subscriptions"]]_vars

\* C21 witness: a signed-in client's DELETE named a row of another user and
\* removed nothing.
C21_Witness ==
    /\ rlsRun.command = "DELETE"
    /\ rlsRun.uid /= Null
    /\ rlsRun.rows = {}
    /\ \E r \in rlsTables[rlsRun.table] : r.id = rlsRun.id /\ rlsRun.uid /= Val(r.user_id)

====
